---- MODULE Spec2Model ----
(***************************************************************************)
(* Model of sorting.py: the three comparators, the linear merge _merged,   *)
(* merge_sorted, the copy-based quick_sorted (random pivot) and the        *)
(* in-place quick_sort (Lomuto partition), each run as a call stack.       *)
(* Python lists are sequences; list indices stay 0-based as in the source  *)
(* and are translated at the point of access.                              *)
(***************************************************************************)
EXTENDS Integers, Sequences, FiniteSets, TLC

\* ------------------------------------------------------------------ bounds
\* Longest list handed to a top-level call.
MaxLen == 4

\* Elements: four keys in natural order; 1 and 11 share a last digit.
Vals == {1, 2, 3, 11}

\* Deepest call stack the interpreter allows; stands for Python's recursion
\* limit and lies beyond the depth any call of the code reaches on a list of
\* at most MaxLen elements or on a scenario list (five elements).
MaxDepth == MaxLen + 7

\* --------------------------------------------------------------- comparators
cmp_standard(a, b) ==
    IF a < b THEN -1
    ELSE IF b < a THEN 1
    ELSE 0

cmp_reverse(a, b) ==
    IF a < b THEN 1
    ELSE IF b < a THEN -1
    ELSE 0

cmp_last_digit(a, b) == cmp_standard(a % 10, b % 10)

Comparators == {"cmp_standard", "cmp_reverse", "cmp_last_digit"}

\* cmp(a, b) for the comparator passed as the argument cmp
Apply(c, a, b) ==
    IF c = "cmp_standard" THEN cmp_standard(a, b)
    ELSE IF c = "cmp_reverse" THEN cmp_reverse(a, b)
    ELSE cmp_last_digit(a, b)

\* ------------------------------------------------------------ list helpers
\* Python slice s[k:] for 0 <= k <= len(s)
SliceFrom(s, k) == SubSeq(s, k + 1, Len(s))

\* Python slice s[:k] for 0 <= k <= len(s)
SliceTo(s, k) == SubSeq(s, 1, k)

\* copy.deepcopy of a list of integers: a new list, element by element
deepcopy(s) == [k \in 1..Len(s) |-> s[k]]

\* ------------------------------------------------------------------ _merged
\* Variant of the while body whose tie branch appends only the left element
\* while still advancing both cursors.
MergedBodyDropsTie(xs, ys, number, st) ==
    LET s1 == IF number = -1
              THEN [new_list |-> Append(st.new_list, xs[st.counter1 + 1]),
                    counter1 |-> st.counter1 + 1,
                    counter2 |-> st.counter2]
              ELSE st
        s2 == IF number = 1
              THEN [new_list |-> Append(s1.new_list, ys[s1.counter2 + 1]),
                    counter1 |-> s1.counter1,
                    counter2 |-> s1.counter2 + 1]
              ELSE s1
        s3 == IF number = 0
              THEN [new_list |-> Append(s2.new_list, xs[s2.counter1 + 1]),
                    counter1 |-> s2.counter1 + 1,
                    counter2 |-> s2.counter2 + 1]
              ELSE s2
    IN  s3

\* One pass of the while body: the three ifs run in order on the same number.
MergedBody(xs, ys, number, st) ==
    LET s1 == IF number = -1
              THEN [new_list |-> Append(st.new_list, xs[st.counter1 + 1]),
                    counter1 |-> st.counter1 + 1,
                    counter2 |-> st.counter2]
              ELSE st
        s2 == IF number = 1
              THEN [new_list |-> Append(s1.new_list, ys[s1.counter2 + 1]),
                    counter1 |-> s1.counter1,
                    counter2 |-> s1.counter2 + 1]
              ELSE s1
        s3 == IF number = 0
              THEN [new_list |-> Append(Append(s2.new_list, xs[s2.counter1 + 1]),
                                        ys[s2.counter2 + 1]),
                    counter1 |-> s2.counter1 + 1,
                    counter2 |-> s2.counter2 + 1]
              ELSE s2
    IN  s3

RECURSIVE MergedLoop(_, _, _, _)
MergedLoop(xs, ys, c, st) ==
    IF st.counter1 < Len(xs) /\ st.counter2 < Len(ys)
    THEN MergedLoop(xs, ys, c,
             MergedBody(xs, ys, Apply(c, xs[st.counter1 + 1], ys[st.counter2 + 1]), st))
    ELSE st.new_list \o SliceFrom(xs, st.counter1) \o SliceFrom(ys, st.counter2)

merged(xs, ys, c) ==
    MergedLoop(xs, ys, c, [new_list |-> <<>>, counter1 |-> 0, counter2 |-> 0])

\* ------------------------------------------------------- specification terms
\* s is ordered per c: no adjacent pair compares as "greater".
Sorted(s, c) == \A k \in 1..(Len(s) - 1) : Apply(c, s[k], s[k + 1]) # 1

Count(s, v) == Cardinality({k \in DOMAIN s : s[k] = v})

Elems(s) == {s[k] : k \in DOMAIN s}

\* s and t hold the same elements with the same multiplicities.
SameBag(s, t) ==
    /\ Len(s) = Len(t)
    /\ \A v \in Elems(s) \cup Elems(t) : Count(s, v) = Count(t, v)

\* The elements of s equivalent to v under c, in the order s has them.
Class(s, c, v) == SelectSeq(s, LAMBDA e : Apply(c, e, v) = 0)

\* out keeps every group of equivalent elements in the order inp has it.
KeepsTieOrder(inp, out, c) ==
    \A v \in Elems(inp) \cup Elems(out) : Class(out, c, v) = Class(inp, c, v)

\* ------------------------------------------------------------------- inputs
BoundedSeqs(n) == UNION {[1..k -> Vals] : k \in 0..n}

\* The lists of the documented scenarios.
ScenarioLists == {<<5, 3, 1, 4, 2>>, <<322, 125, 523>>}

SortInputs == BoundedSeqs(MaxLen) \cup ScenarioLists

\* The lists handed to _merged: each must be sorted (docstring, line 67).
MergeInputs == BoundedSeqs(MaxLen) \cup {<<1, 3, 5>>, <<2, 4, 6>>}

\* -------------------------------------------------------------------- state
\* alg     the function the caller invoked
\* cmp     the comparator argument
\* xs, ys  contents of the caller's list objects (ys only for _merged)
\* xs0     contents of xs when the call was made
\* stack   the call stack, innermost frame last
\* ret     the value the top-level call returned
\* retobj  which object that value is: the argument "xs" or a "new" list
\* status  "running", "returned", or the exception that ended the call
\* touched the list indices of xs read or written by the latest step
VARIABLES alg, cmp, xs, ys, xs0, stack, ret, retobj, status, touched

vars == <<alg, cmp, xs, ys, xs0, stack, ret, retobj, status, touched>>

None == <<>>
Some(k) == <<k>>

Top == stack[Len(stack)]
Below == SubSeq(stack, 1, Len(stack) - 1)

\* ------------------------------------------------------------------- frames
MergedFrame == [fn |-> "_merged", pc |-> "l95"]

MergeSortedFrame(arg) ==
    [fn |-> "merge_sorted", pc |-> "l136", xs |-> arg, xs2 |-> <<>>,
     left |-> <<>>, right |-> <<>>, lmerge |-> <<>>, rmerge |-> <<>>]

QuickSortedFrame(arg) ==
    [fn |-> "quick_sorted", pc |-> "l182", xs |-> arg, xs2 |-> <<>>,
     pivot |-> 0, less_than_pivot |-> <<>>, greater_than_pivot |-> <<>>,
     equal_to_pivot |-> <<>>, less |-> <<>>, greater |-> <<>>]

QuicksortFrame(lo, hi) ==
    [fn |-> "_quicksort", pc |-> "l253", lo |-> lo, hi |-> hi, p |-> None]

PartitionFrame(lo, hi) ==
    [fn |-> "_partition", pc |-> "l234", lo |-> lo, hi |-> hi,
     pivot |-> 0, i |-> 0, j |-> 0, it |-> 0, comparison |-> 0]

\* ------------------------------------------------------------ call / return
\* The frame f receives the value v of the call it was waiting on.
Deliver(f, v) ==
    IF f.fn = "merge_sorted"
    THEN IF f.pc = "l144"
         THEN [f EXCEPT !.lmerge = v, !.pc = "l145"]
         ELSE [f EXCEPT !.rmerge = v, !.pc = "l146"]
    ELSE IF f.fn = "quick_sorted"
    THEN IF f.pc = "l199"
         THEN [f EXCEPT !.less = v, !.pc = "l200"]
         ELSE [f EXCEPT !.greater = v, !.pc = "l201"]
    ELSE IF f.pc = "l254"
         THEN [f EXCEPT !.p = v, !.pc = "l255"]
         ELSE IF f.pc = "l255"
              THEN [f EXCEPT !.pc = "l256"]
              ELSE [f EXCEPT !.pc = "l257"]

\* The innermost frame returns v; obj names the object v is.
Return(v, obj) ==
    IF Len(stack) = 1
    THEN /\ stack' = <<>>
         /\ ret' = v
         /\ retobj' = obj
         /\ status' = "returned"
    ELSE /\ stack' = SubSeq(stack, 1, Len(stack) - 2)
                        \o <<Deliver(stack[Len(stack) - 1], v)>>
         /\ UNCHANGED <<ret, retobj, status>>

\* The innermost frame becomes f and calls a function whose frame is g.
Call(f, g) ==
    IF Len(stack) < MaxDepth
    THEN /\ stack' = Below \o <<f, g>>
         /\ UNCHANGED status
    ELSE /\ stack' = <<>>
         /\ status' = "RecursionError"

\* An exception e leaves the top-level call.
Raise(e) ==
    /\ stack' = <<>>
    /\ status' = e

Running(fn, pc) ==
    /\ status = "running"
    /\ stack # <<>>
    /\ Top.fn = fn
    /\ Top.pc = pc

\* ---------------------------------------------------------------------- Init
\* Nothing has been called yet.
Init ==
    /\ alg = "none"
    /\ cmp = "cmp_standard"
    /\ xs = <<>>
    /\ ys = <<>>
    /\ xs0 = <<>>
    /\ stack = <<>>
    /\ ret = <<>>
    /\ retobj = "none"
    /\ status = "idle"
    /\ touched = {}

\* The first frame of a call of function a on the list l.
\* line 258 for quick_sort: _quicksort(xs, 0, len(xs) - 1)
EntryFrame(a, l) ==
    IF a = "_merged" THEN MergedFrame
    ELSE IF a = "merge_sorted" THEN MergeSortedFrame(l)
    ELSE IF a = "quick_sorted" THEN QuickSortedFrame(l)
    ELSE QuicksortFrame(0, Len(l) - 1)

\* A caller invokes one of the four functions with a comparator and lists.
invoke ==
    /\ status = "idle"
    /\ \E a \in {"_merged", "merge_sorted", "quick_sorted", "quick_sort"},
          c \in Comparators :
          /\ alg' = a
          /\ cmp' = c
          /\ IF a = "_merged"
             THEN /\ xs' \in MergeInputs
                  /\ Sorted(xs', c)
                  /\ ys' \in MergeInputs
                  /\ Sorted(ys', c)
             ELSE /\ xs' \in SortInputs
                  /\ ys' = <<>>
          /\ xs0' = xs'
          /\ stack' = <<EntryFrame(a, xs')>>
    /\ status' = "running"
    /\ UNCHANGED <<ret, retobj, touched>>

\* ------------------------------------------------------------ _merged (call)
\* lines 95-113, run by the caller on its own two lists
merged_call ==
    /\ Running("_merged", "l95")
    /\ Return(merged(xs, ys, cmp), "new")
    /\ UNCHANGED <<alg, cmp, xs, ys, xs0, touched>>

\* -------------------------------------------------------------- merge_sorted
\* lines 136-139: copy, and a list of at most one element is returned
merge_sorted_base ==
    /\ Running("merge_sorted", "l136")
    /\ Len(deepcopy(Top.xs)) <= 1
    /\ Return(deepcopy(Top.xs), "new")
    /\ UNCHANGED <<alg, cmp, xs, ys, xs0, touched>>

\* lines 136-144: copy, split at the midpoint, sort the left half
merge_sorted_split ==
    /\ Running("merge_sorted", "l136")
    /\ Len(deepcopy(Top.xs)) > 1
    /\ LET xs2 == deepcopy(Top.xs)
           mid == Len(xs2) \div 2
           left == SliceTo(xs2, mid)
           right == SliceFrom(xs2, mid)
       IN  Call([Top EXCEPT !.xs2 = xs2, !.left = left, !.right = right,
                            !.pc = "l144"],
                MergeSortedFrame(left))
    /\ UNCHANGED <<alg, cmp, xs, ys, xs0, ret, retobj, touched>>

\* line 145: sort the right half
merge_sorted_right ==
    /\ Running("merge_sorted", "l145")
    /\ Call(Top, MergeSortedFrame(Top.right))
    /\ UNCHANGED <<alg, cmp, xs, ys, xs0, ret, retobj, touched>>

\* Variant of line 146 that stores the merged list back into the argument
\* (xs[:] = ...) and returns the argument.
merge_sorted_merge_in_place ==
    /\ Running("merge_sorted", "l146")
    /\ Return(merged(Top.lmerge, Top.rmerge, cmp), "xs")
    /\ xs' = IF Len(stack) = 1 THEN merged(Top.lmerge, Top.rmerge, cmp) ELSE xs
    /\ UNCHANGED <<alg, cmp, ys, xs0, touched>>

\* line 146: merge the two sorted halves
merge_sorted_merge ==
    /\ Running("merge_sorted", "l146")
    /\ Return(merged(Top.lmerge, Top.rmerge, cmp), "new")
    /\ UNCHANGED <<alg, cmp, xs, ys, xs0, touched>>

\* -------------------------------------------------------------- quick_sorted
\* Variant of the scan whose first test is comparison <= 0, so that items
\* equivalent to the pivot also enter the less bucket.
ScanBodyLessOrEqual(items, comparison, b) ==
    LET b1 == IF comparison <= 0
              THEN [b EXCEPT !.less_than_pivot = Append(@, items)]
              ELSE b
        b2 == IF comparison = 1
              THEN [b1 EXCEPT !.greater_than_pivot = Append(@, items)]
              ELSE b1
        b3 == IF comparison = 0
              THEN [b2 EXCEPT !.equal_to_pivot = Append(@, items)]
              ELSE b2
    IN  b3

\* Variant of the scan that puts an equivalent item at the front of its bucket
\* (insert(0, items) instead of append).
ScanBodyPrepends(items, comparison, b) ==
    LET b1 == IF comparison = -1
              THEN [b EXCEPT !.less_than_pivot = Append(@, items)]
              ELSE b
        b2 == IF comparison = 1
              THEN [b1 EXCEPT !.greater_than_pivot = Append(@, items)]
              ELSE b1
        b3 == IF comparison = 0
              THEN [b2 EXCEPT !.equal_to_pivot = <<items>> \o @]
              ELSE b2
    IN  b3

\* lines 191-198: one forward scan; the three ifs run in order on each item
ScanBody(items, comparison, b) ==
    LET b1 == IF comparison = -1
              THEN [b EXCEPT !.less_than_pivot = Append(@, items)]
              ELSE b
        b2 == IF comparison = 1
              THEN [b1 EXCEPT !.greater_than_pivot = Append(@, items)]
              ELSE b1
        b3 == IF comparison = 0
              THEN [b2 EXCEPT !.equal_to_pivot = Append(@, items)]
              ELSE b2
    IN  b3

RECURSIVE ScanLoop(_, _, _, _, _)
ScanLoop(xs2, k, pivot, c, b) ==
    IF k > Len(xs2) THEN b
    ELSE ScanLoop(xs2, k + 1, pivot, c,
                  ScanBody(xs2[k], Apply(c, xs2[k], pivot), b))

Buckets(xs2, pivot, c) ==
    ScanLoop(xs2, 1, pivot, c,
             [less_than_pivot |-> <<>>, greater_than_pivot |-> <<>>,
              equal_to_pivot |-> <<>>])

\* lines 182-184: copy, and a list of at most one element is returned
quick_sorted_base ==
    /\ Running("quick_sorted", "l182")
    /\ Len(deepcopy(Top.xs)) <= 1
    /\ Return(deepcopy(Top.xs), "new")
    /\ UNCHANGED <<alg, cmp, xs, ys, xs0, touched>>

\* lines 182-199: copy, draw the pivot, fill the buckets, sort the less bucket
quick_sorted_partition ==
    /\ Running("quick_sorted", "l182")
    /\ Len(deepcopy(Top.xs)) > 1
    /\ \E k \in 1..Len(Top.xs) :
          LET xs2 == deepcopy(Top.xs)
              pivot == xs2[k]
              b == Buckets(xs2, pivot, cmp)
          IN  Call([Top EXCEPT !.xs2 = xs2, !.pivot = pivot,
                               !.less_than_pivot = b.less_than_pivot,
                               !.greater_than_pivot = b.greater_than_pivot,
                               !.equal_to_pivot = b.equal_to_pivot,
                               !.pc = "l199"],
                   QuickSortedFrame(b.less_than_pivot))
    /\ UNCHANGED <<alg, cmp, xs, ys, xs0, ret, retobj, touched>>

\* line 200: sort the greater bucket
quick_sorted_greater ==
    /\ Running("quick_sorted", "l200")
    /\ Call(Top, QuickSortedFrame(Top.greater_than_pivot))
    /\ UNCHANGED <<alg, cmp, xs, ys, xs0, ret, retobj, touched>>

\* Variant of line 201 that concatenates in the opposite order.
quick_sorted_concat_reversed ==
    /\ Running("quick_sorted", "l201")
    /\ Return(Top.greater \o Top.equal_to_pivot \o Top.less, "new")
    /\ UNCHANGED <<alg, cmp, xs, ys, xs0, touched>>

\* line 201: less + equal_to_pivot + greater
quick_sorted_concat ==
    /\ Running("quick_sorted", "l201")
    /\ Return(Top.less \o Top.equal_to_pivot \o Top.greater, "new")
    /\ UNCHANGED <<alg, cmp, xs, ys, xs0, touched>>

\* ------------------------------------------------------ quick_sort: indexing
\* Python accepts the indices -len .. len-1 and raises IndexError otherwise.
InRange(array, k) == -Len(array) <= k /\ k < Len(array)

\* Position in the sequence of the Python index k (negative k counts from
\* the end).
Pos(array, k) == IF k < 0 THEN k + Len(array) + 1 ELSE k + 1

Item(array, k) == array[Pos(array, k)]

\* Variant of the exchange without the temporary: array[a] = array[b] only.
ExchangeWithoutTemp(array, a, b) ==
    [array EXCEPT ![Pos(array, a)] = array[Pos(array, b)]]

\* temp = array[a]; array[a] = array[b]; array[b] = temp
Exchange(array, a, b) ==
    [array EXCEPT ![Pos(array, a)] = array[Pos(array, b)],
                  ![Pos(array, b)] = array[Pos(array, a)]]

\* ------------------------------------------------------ quick_sort: _partition
\* lines 234-235: pivot = array[hi]; i = lo - 1; the range iterator starts at lo
partition_init ==
    /\ Running("_partition", "l234")
    /\ touched' = {Top.hi}
    /\ IF InRange(xs, Top.hi)
       THEN /\ stack' = Below \o <<[Top EXCEPT !.pivot = Item(xs, Top.hi),
                                               !.i = Top.lo - 1,
                                               !.it = Top.lo,
                                               !.pc = "l236"]>>
            /\ UNCHANGED status
       ELSE Raise("IndexError")
    /\ UNCHANGED <<alg, cmp, xs, ys, xs0, ret, retobj>>

\* line 236: the next j of range(lo, hi); an exhausted range leaves the loop
\* and the function ends without a return statement, giving None
partition_for ==
    /\ Running("_partition", "l236")
    /\ touched' = {}
    /\ IF Top.it < Top.hi
       THEN /\ stack' = Below \o <<[Top EXCEPT !.j = Top.it,
                                               !.it = Top.it + 1,
                                               !.pc = "l237"]>>
            /\ UNCHANGED <<ret, retobj, status>>
       ELSE Return(None, "new")
    /\ UNCHANGED <<alg, cmp, xs, ys, xs0>>

\* line 237: comparison = cmp(array[j], pivot)
partition_compare ==
    /\ Running("_partition", "l237")
    /\ touched' = {Top.j}
    /\ IF InRange(xs, Top.j)
       THEN /\ stack' = Below \o <<[Top EXCEPT
                           !.comparison = Apply(cmp, Item(xs, Top.j), Top.pivot),
                           !.pc = "l238"]>>
            /\ UNCHANGED status
       ELSE Raise("IndexError")
    /\ UNCHANGED <<alg, cmp, xs, ys, xs0, ret, retobj>>

\* i += 1, then array[i] and array[j] change places; control goes on to pc
AdvanceAndExchange(pc) ==
    LET i == Top.i + 1
    IN  /\ touched' = {i, Top.j}
        /\ IF InRange(xs, i) /\ InRange(xs, Top.j)
           THEN /\ xs' = Exchange(xs, i, Top.j)
                /\ stack' = Below \o <<[Top EXCEPT !.i = i, !.pc = pc]>>
                /\ UNCHANGED status
           ELSE /\ Raise("IndexError")
                /\ UNCHANGED xs

\* lines 238-242: comparison == -1
partition_swap_less ==
    /\ Running("_partition", "l238")
    /\ Top.comparison = -1
    /\ AdvanceAndExchange("l248")
    /\ UNCHANGED <<alg, cmp, ys, xs0, ret, retobj>>

\* lines 243-247: comparison == 0
partition_swap_equal ==
    /\ Running("_partition", "l238")
    /\ Top.comparison = 0
    /\ AdvanceAndExchange("l248")
    /\ UNCHANGED <<alg, cmp, ys, xs0, ret, retobj>>

\* lines 238, 243: neither condition holds, nothing moves
partition_no_swap ==
    /\ Running("_partition", "l238")
    /\ Top.comparison \notin {-1, 0}
    /\ touched' = {}
    /\ stack' = Below \o <<[Top EXCEPT !.pc = "l248"]>>
    /\ UNCHANGED <<alg, cmp, xs, ys, xs0, ret, retobj, status>>

\* lines 248-250, inside the for body: array[i + 1] and array[hi] change places
partition_place ==
    /\ Running("_partition", "l248")
    /\ touched' = {Top.i + 1, Top.hi}
    /\ IF InRange(xs, Top.i + 1) /\ InRange(xs, Top.hi)
       THEN /\ xs' = Exchange(xs, Top.i + 1, Top.hi)
            /\ stack' = Below \o <<[Top EXCEPT !.pc = "l251"]>>
            /\ UNCHANGED status
       ELSE /\ Raise("IndexError")
            /\ UNCHANGED xs
    /\ UNCHANGED <<alg, cmp, ys, xs0, ret, retobj>>

\* line 251, inside the for body: return i + 1
partition_return ==
    /\ Running("_partition", "l251")
    /\ touched' = {}
    /\ Return(Some(Top.i + 1), "new")
    /\ UNCHANGED <<alg, cmp, xs, ys, xs0>>

\* ------------------------------------------------------ quick_sort: _quicksort
\* Variant of the test of line 253 that lets a one-element range through.
RangeNeedsWorkInclusive(lo, hi) == lo <= hi

\* line 253: if lo < hi
RangeNeedsWork(lo, hi) == lo < hi

\* lines 253-254: lo < hi, partition the range
quicksort_partition ==
    /\ Running("_quicksort", "l253")
    /\ RangeNeedsWork(Top.lo, Top.hi)
    /\ touched' = {}
    /\ Call([Top EXCEPT !.pc = "l254"], PartitionFrame(Top.lo, Top.hi))
    /\ UNCHANGED <<alg, cmp, xs, ys, xs0, ret, retobj>>

\* line 255: _quicksort(array, lo, p - 1)
quicksort_left ==
    /\ Running("_quicksort", "l255")
    /\ touched' = {}
    /\ IF Top.p = None
       THEN Raise("TypeError")
       ELSE Call(Top, QuicksortFrame(Top.lo, Top.p[1] - 1))
    /\ UNCHANGED <<alg, cmp, xs, ys, xs0, ret, retobj>>

\* line 256: _quicksort(array, p + 1, hi)
quicksort_right ==
    /\ Running("_quicksort", "l256")
    /\ touched' = {}
    /\ Call(Top, QuicksortFrame(Top.p[1] + 1, Top.hi))
    /\ UNCHANGED <<alg, cmp, xs, ys, xs0, ret, retobj>>

\* line 257: return array, after the recursion or when lo >= hi
quicksort_return ==
    /\ \/ Running("_quicksort", "l257")
       \/ Running("_quicksort", "l253") /\ ~ RangeNeedsWork(Top.lo, Top.hi)
    /\ touched' = {}
    /\ Return(xs, "xs")
    /\ UNCHANGED <<alg, cmp, xs, ys, xs0>>

\* ---------------------------------------------------------------------- Next
\* The steps of _merged and merge_sorted.
MergeStep ==
    \/ merged_call
    \/ merge_sorted_base
    \/ merge_sorted_split
    \/ merge_sorted_right
    \/ merge_sorted_merge

\* The steps of quick_sorted and quick_sort.
QuickStep ==
    \/ quick_sorted_base
    \/ quick_sorted_partition
    \/ quick_sorted_greater
    \/ quick_sorted_concat
    \/ partition_init
    \/ partition_for
    \/ partition_compare
    \/ partition_swap_less
    \/ partition_swap_equal
    \/ partition_no_swap
    \/ partition_place
    \/ partition_return
    \/ quicksort_partition
    \/ quicksort_left
    \/ quicksort_right
    \/ quicksort_return

Next ==
    \/ invoke
    \/ MergeStep
    \/ QuickStep

Spec == Init /\ [][Next]_vars

\* The interpreter runs a quicksort call that was made to its end: a step of
\* the call that can be taken is taken.  Nothing obliges a caller to make a
\* call.
FairSpec == Spec /\ WF_vars(QuickStep)

\* ------------------------------------------------------ reference functions
\* e enters the sorted list t behind every element that does not follow it.
InsertBehindTies(t, e, c) ==
    LET n == Cardinality({k \in DOMAIN t : Apply(c, t[k], e) # 1})
    IN  SubSeq(t, 1, n) \o <<e>> \o SubSeq(t, n + 1, Len(t))

\* The stable sort of s under c, by insertion from the left.
RECURSIVE StableSort(_, _)
StableSort(s, c) ==
    IF s = <<>> THEN <<>>
    ELSE InsertBehindTies(StableSort(SubSeq(s, 1, Len(s) - 1), c), s[Len(s)], c)

CopyBased == {"merge_sorted", "quick_sorted"}

\* s holds two different elements that c treats as equivalent.
HasDistinctTies(s, c) ==
    \E a, b \in DOMAIN s : a < b /\ s[a] # s[b] /\ Apply(c, s[a], s[b]) = 0

\* ----------------------------------------------------------------- claims
\* C1: after quick_sort(xs, cmp) returns, xs is sorted per cmp (no adjacent
\* pair compares as greater) and the value returned is xs itself; in
\* particular [5,3,1,4,2] under ascending becomes [1,2,3,4,5].
C1_QuickSortSorts ==
    (alg = "quick_sort" /\ status = "returned") =>
        /\ Sorted(xs, cmp)
        /\ ret = xs
        /\ retobj = "xs"
        /\ (xs0 = <<5, 3, 1, 4, 2>> /\ cmp = "cmp_standard"
               => xs = <<1, 2, 3, 4, 5>>)

\* C2: merge_sorted is stable: elements equivalent under cmp appear in the
\* result in the same relative order as in the input, for every length.
C2_MergeSortStable ==
    (alg = "merge_sorted" /\ status = "returned") =>
        KeepsTieOrder(xs0, ret, cmp)

\* C3: the result of merge_sorted, and of quick_sorted under every sequence
\* of pivot choices, has no adjacent pair that compares as greater.
C3_CopySortsOrdered ==
    (alg \in CopyBased /\ status = "returned") => Sorted(ret, cmp)

C3_Witness ==
    /\ alg = "quick_sorted"
    /\ status = "returned"
    /\ Len(xs0) >= 4
    /\ ~ Sorted(xs0, cmp)
    /\ ret # xs0

\* C4: the output of each of the three sorts holds the elements of the input
\* with the same multiplicities; for the in-place quick_sort the list holds
\* them after every exchange, not only at the end.
C4_MultisetPreserved ==
    /\ alg = "quick_sort" => SameBag(xs, xs0)
    /\ (alg \in CopyBased \cup {"quick_sort"} /\ status = "returned")
           => SameBag(ret, xs0)

C4_Witness ==
    /\ alg = "quick_sort"
    /\ status = "running"
    /\ Top.fn = "_partition"
    /\ Top.pc = "l251"
    /\ xs # xs0
    /\ Elems(xs0) # {xs0[1]}

\* C5: for sorted xs and ys, _merged(xs, ys, cmp) is sorted, holds exactly the
\* elements of xs ++ ys, and has length len(xs) + len(ys);
\* _merged([1,3,5],[2,4,6]) is [1,2,3,4,5,6].
C5_MergedCorrect ==
    (alg = "_merged" /\ status = "returned"
         /\ Sorted(xs, cmp) /\ Sorted(ys, cmp)) =>
        /\ Sorted(ret, cmp)
        /\ SameBag(ret, xs \o ys)
        /\ Len(ret) = Len(xs) + Len(ys)
        /\ (xs = <<1, 3, 5>> /\ ys = <<2, 4, 6>> /\ cmp = "cmp_standard"
               => ret = <<1, 2, 3, 4, 5, 6>>)

C5_Witness ==
    /\ alg = "_merged"
    /\ status = "returned"
    /\ cmp = "cmp_last_digit"
    /\ xs = <<1, 11, 2>>
    /\ ys = <<11, 3, 3>>
    /\ ret = <<1, 11, 11, 2, 3, 3>>

\* The argument a frame of a copy-based sort received is the list its caller
\* passed: the caller's argument at the top, else the caller frame's half or
\* bucket.
ArgumentIntact(k) ==
    IF k = 1 THEN stack[k].xs = xs0
    ELSE LET f == stack[k - 1]
         IN  stack[k].xs =
                 IF f.pc = "l144" THEN f.left
                 ELSE IF f.pc = "l145" THEN f.right
                 ELSE IF f.pc = "l199" THEN f.less_than_pivot
                 ELSE f.greater_than_pivot

\* C6: merge_sorted and quick_sorted leave the contents of xs exactly as they
\* were before the call, at every recursion level, and the result is a
\* separate list.
C6_NonMutation ==
    alg \in CopyBased =>
        /\ xs = xs0
        /\ \A k \in 1..Len(stack) : ArgumentIntact(k)
        /\ status = "returned" => retobj = "new"

C6_Witness ==
    /\ alg = "merge_sorted"
    /\ status = "returned"
    /\ Len(xs0) >= 3
    /\ ret # xs0
    /\ xs = xs0

\* C7: _partition(array, lo, hi) with lo < hi scans every j in lo..hi-1 before
\* placing the pivot; on return with index p, array[p] is the pivot, every
\* element of [lo, p-1] does not follow the pivot and every element of
\* [p+1, hi] follows it.
C7_PartitionPostcondition ==
    (status = "running" /\ stack # <<>>
         /\ Top.fn = "_partition" /\ Top.pc = "l251") =>
        LET p == Top.i + 1
        IN  /\ Top.it = Top.hi
            /\ Item(xs, p) = Top.pivot
            /\ \A k \in Top.lo..(p - 1) :
                   Apply(cmp, Item(xs, k), Top.pivot) # 1
            /\ \A k \in (p + 1)..Top.hi :
                   Apply(cmp, Item(xs, k), Top.pivot) = 1

\* C8: in every run of quick_sort on a list of length n (0 and 1 included),
\* _partition is only called with 0 <= lo < hi <= n-1, it returns an integer
\* p with lo <= p <= hi, and every index read or written lies in 0..n-1; no
\* exception is raised.
C8_IndexSafe ==
    alg = "quick_sort" =>
        /\ status \in {"running", "returned"}
        /\ touched \subseteq 0..(Len(xs) - 1)
        /\ \A k \in 1..Len(stack) :
              /\ stack[k].fn = "_partition" =>
                    /\ 0 <= stack[k].lo
                    /\ stack[k].lo < stack[k].hi
                    /\ stack[k].hi <= Len(xs) - 1
              /\ (stack[k].fn = "_quicksort"
                      /\ stack[k].pc \in {"l255", "l256", "l257"}) =>
                    /\ stack[k].p # None
                    /\ stack[k].lo <= stack[k].p[1]
                    /\ stack[k].p[1] <= stack[k].hi

C8_Witness ==
    /\ alg = "quick_sort"
    /\ status = "running"
    /\ Len(stack) >= 3
    /\ Top.fn = "_partition"
    /\ Top.pc = "l251"
    /\ touched = {Top.i + 1, Top.hi}
    /\ Top.hi = Len(xs) - 1

\* Every call on the stack below the first works on less than its caller: a
\* strictly shorter list in quick_sorted, a strictly smaller index range
\* inside the caller's range in quick_sort; the equal bucket of quick_sorted
\* is never empty, and it is the whole list only with both other buckets
\* empty.
Shrinking ==
    /\ \A k \in 2..Len(stack) :
          /\ stack[k].fn = "quick_sorted" =>
                Len(stack[k].xs) < Len(stack[k - 1].xs)
          /\ stack[k].fn = "_quicksort" =>
                /\ stack[k - 1].lo <= stack[k].lo
                /\ stack[k].hi <= stack[k - 1].hi
                /\ stack[k].hi - stack[k].lo < stack[k - 1].hi - stack[k - 1].lo
    /\ \A k \in 1..Len(stack) :
          (stack[k].fn = "quick_sorted" /\ stack[k].pc # "l182") =>
                /\ stack[k].equal_to_pivot # <<>>
                /\ Len(stack[k].equal_to_pivot) = Len(stack[k].xs) =>
                      /\ stack[k].less_than_pivot = <<>>
                      /\ stack[k].greater_than_pivot = <<>>

\* C9: both quicksort variants terminate: every recursive call of
\* quick_sorted receives a strictly shorter list (the equal bucket is never
\* empty), every recursive call of quick_sort is on a strictly smaller index
\* range, and eventually the top-level call returns.
C9_QuicksortsTerminate ==
    /\ [](alg \in {"quick_sorted", "quick_sort"} => Shrinking)
    /\ (alg \in {"quick_sorted", "quick_sort"} /\ status = "running")
           ~> (status = "returned")

C9_Witness ==
    /\ alg = "quick_sorted"
    /\ status = "returned"
    /\ cmp = "cmp_last_digit"
    /\ Len(xs0) >= 3
    /\ Elems(xs0) = {1, 11}

\* C10: the result of quick_sorted does not depend on the pivots drawn: every
\* run returns the stable sort of the input.
C10_QuickSortedIsStableSort ==
    (alg = "quick_sorted" /\ status = "returned") =>
        /\ ret = StableSort(xs0, cmp)
        /\ KeepsTieOrder(xs0, ret, cmp)

C10_Witness ==
    /\ alg = "quick_sorted"
    /\ status = "returned"
    /\ Len(xs0) >= 4
    /\ HasDistinctTies(xs0, cmp)
    /\ ~ Sorted(xs0, cmp)

====
